---- MODULE Spec2Model ----
(***************************************************************************)
(* Model of the UWB localizer: the serial stream framer (CircularBuffer),  *)
(* the multilateration entry validation, the LocalizationEngine, the       *)
(* distance-update callback of the application, the reader threads of the  *)
(* Serial, UDP and File input adapters and the MultiOutputAdapter.         *)
(*                                                                         *)
(* Bytes are integers 0..255 and a bytes object is a sequence of them;     *)
(* where a bytes object may be None, None is the sequence NoneBytes.       *)
(* Distances are integers (metres), no claim checked here depends on       *)
(* rounding; where a distance may be None, None is the integer NoneDist.   *)
(* An absent object (no engine, no call) is a record without its fields.   *)
(***************************************************************************)
EXTENDS Integers, Sequences, FiniteSets, TLC

VARIABLES
    buffer,         \* CircularBuffer.buffer: slot index 0..N-1 -> span
    head,           \* CircularBuffer.head
    size,           \* CircularBuffer.size
    tail,           \* CircularBuffer.tail
    element_size,   \* CircularBuffer.element_size
    ret,            \* value returned by the last buffer call
    stored,         \* history: spans written into a slot by append, in order
    popped,         \* history: spans returned by pop, in order
    overflowed,     \* history: some append pushed size above the capacity
    appendAfterPop, \* history: an append was made after a pop
    oneEach,        \* history: every append call so far stored exactly one span
    slotIdx,        \* history: slot -> index in stored of the span it holds (0: none)
    poppedIdx,      \* history: index in stored of each span returned by pop
    last,           \* history: the last append call that stored a span
    pending,        \* bytes of the transport stream not yet read
    records,        \* the records the transport stream was made of
    reads,          \* number of chunks read from the transport so far
    engine,         \* the constructed LocalizationEngine, or None
    call,           \* the engine/solver call in progress with its outcome, or None
    app,            \* UWBLocalizerApp fields
    multi,          \* the MultiOutputAdapter and the calls its children received
    reader          \* an input adapter and its reader thread

vars == <<buffer, head, size, tail, element_size, ret, stored, popped, overflowed,
          appendAfterPop, oneEach, slotIdx, poppedIdx, last,
          pending, records, reads, engine, call, app, multi, reader>>

bufVars == <<buffer, head, size, tail, element_size, ret, stored, popped, overflowed,
             appendAfterPop, oneEach, slotIdx, poppedIdx, last>>
streamVars == <<pending, records, reads>>
engVars == <<engine, call, app>>
ioVars == <<multi, reader>>

NoneBytes == <<-1>>
Absent == [absent |-> TRUE]

-----------------------------------------------------------------------------
(* Bounds *)

Capacity == 3       \* slots of the CircularBuffer under test
MaxStored == 5      \* spans stored by append over one behaviour
MaxRecords == 2     \* records of one transport stream
MaxReads == 3       \* chunks one transport stream is read in
MaxHistory == 1     \* fixes kept in position_history over one behaviour
MaxChildren == 3    \* child adapters of one MultiOutputAdapter
MaxCalls == 2       \* calls made on one MultiOutputAdapter

-----------------------------------------------------------------------------
(* Stream framer: CircularBuffer *)

ElementSize == 5

Delimiter == <<255, 255, 255, 0>>

\* position of the first occurrence of the delimiter in s, 0 if there is none
Find(s) ==
    LET hits == {j \in 1..Len(s) : j + 3 <= Len(s) /\ SubSeq(s, j, j + 3) = Delimiter}
    IN  IF hits = {} THEN 0 ELSE CHOOSE j \in hits : \A k \in hits : j <= k

\* bytes.split(b'\xff\xff\xff\x00'): left to right, non-overlapping
RECURSIVE Split(_)
Split(s) ==
    LET j == Find(s)
    IN  IF j = 0 THEN <<s>>
        ELSE <<SubSeq(s, 1, j - 1)>> \o Split(SubSeq(s, j + 4, Len(s)))

\* len(self.buffer)
BufLen(b) == Cardinality(DOMAIN b.buffer)

\* an append that also stores the spans longer than element_size
Storable_AnyLength(item, es) == Len(item) # 0

\* the test of the loop body of append: the span is written into a slot
Storable(item, es) == Len(item) # 0 /\ ~(Len(item) > es)

RECURSIVE StorableSpans(_, _)
StorableSpans(items, es) ==
    IF items = <<>> THEN <<>>
    ELSE (IF Storable(Head(items), es) THEN <<Head(items)>> ELSE <<>>)
         \o StorableSpans(Tail(items), es)

\* the slot append writes after head
NextHead(h, n) == (h + 1) % n

\* the for loop of append over the spans of one chunk
RECURSIVE AppendLoop(_, _)
AppendLoop(b, items) ==
    IF items = <<>> THEN b
    ELSE LET item == Head(items)
         IN  IF ~Storable(item, b.element_size) THEN AppendLoop(b, Tail(items))
             ELSE AppendLoop([b EXCEPT !.buffer = [b.buffer EXCEPT ![b.head] = item],
                                       !.head = NextHead(b.head, BufLen(b)),
                                       !.size = b.size + 1],
                             Tail(items))

\* an append that leaves size uncapped
CapSize_NoCap(n, cap) == n

\* the cap on size that ends append
CapSize(n, cap) == IF n > cap THEN cap ELSE n

\* CircularBuffer.append on the buffer b
AppendTo(b, item) ==
    IF item = NoneBytes THEN b
    ELSE LET after == AppendLoop(b, Split(item))
         IN  [after EXCEPT !.size = CapSize(after.size, BufLen(b))]

\* a pop that reads the slot at head
PopSlot_Head(b) == b.head

\* the slot pop reads
PopSlot(b) == b.tail

\* CircularBuffer.pop on the buffer b: the new buffer and the returned value
PopFrom(b) ==
    IF b.size = 0 THEN [buf |-> b, item |-> NoneBytes]
    ELSE [buf |-> [b EXCEPT !.tail = (b.tail + 1) % BufLen(b), !.size = b.size - 1],
          item |-> b.buffer[PopSlot(b)]]

Buf == [buffer |-> buffer, head |-> head, size |-> size, tail |-> tail,
        element_size |-> element_size]

\* the storable spans of a chunk, in chunk order
ChunkSpans(item, es) ==
    IF item = NoneBytes THEN <<>> ELSE StorableSpans(Split(item), es)

\* number of storable spans of a chunk
NStorable(item, es) == Len(ChunkSpans(item, es))

\* CircularBuffer(size, element_size)
NewBuffer(n, es) ==
    [buffer |-> [i \in 0..(n - 1) |-> <<0>>], head |-> 0, size |-> 0, tail |-> 0,
     element_size |-> es]

Join2(a, b) == a \o Delimiter \o b

\* one chunk of Capacity + 1 single-byte spans joined by the delimiter
RECURSIVE ManySpans(_)
ManySpans(k) ==
    IF k = 1 THEN <<65>> ELSE ManySpans(k - 1) \o Delimiter \o <<64 + k>>

BigChunk == ManySpans(Capacity + 1)

\* chunks handed to append by a direct caller
Chunks ==
    { NoneBytes, <<>>, Delimiter, <<1, 2, 3, 4, 5, 6>>,
      <<49>>, <<50>>, <<51>>,
      Join2(<<49>>, <<50>>), BigChunk }

\* the history of a buffer no call was made on
NoHistory ==
    /\ ret = NoneBytes
    /\ stored = <<>>
    /\ popped = <<>>
    /\ overflowed = FALSE
    /\ appendAfterPop = FALSE
    /\ oneEach = TRUE
    /\ slotIdx = [i \in DOMAIN buffer |-> 0]
    /\ poppedIdx = <<>>
    /\ last = [empty |-> FALSE, n |-> 0, clean |-> FALSE, at |-> 0]

\* the buffer variables hold the buffer b
IsBuffer(b) ==
    /\ buffer = b.buffer
    /\ head = b.head
    /\ size = b.size
    /\ tail = b.tail
    /\ element_size = b.element_size

BufInit ==
    /\ IsBuffer(NewBuffer(Capacity, ElementSize))
    /\ NoHistory

\* the state change of one append call, with its history
AppendStep(item) ==
    LET b == AppendTo(Buf, item)
        n == NStorable(item, element_size)
        cap == BufLen(Buf)
        \* the spans of this call, by position, that were written into slot s
        into(s) == {i \in 1..n : (head + i - 1) % cap = s}
        newest(S) == CHOOSE i \in S : \A j \in S : j <= i
    IN  /\ Len(stored) + n <= MaxStored
        /\ buffer' = b.buffer
        /\ head' = b.head
        /\ size' = b.size
        /\ tail' = b.tail
        /\ element_size' = b.element_size
        /\ ret' = NoneBytes
        /\ stored' = stored \o ChunkSpans(item, element_size)
        /\ overflowed' = (overflowed \/ size + n > cap)
        /\ appendAfterPop' = (appendAfterPop \/ popped # <<>>)
        /\ oneEach' = (oneEach /\ n = 1)
        /\ slotIdx' = [s \in DOMAIN buffer |->
                          IF into(s) = {} THEN slotIdx[s]
                          ELSE Len(stored) + newest(into(s))]
        /\ last' = (IF n = 0 THEN last
                    ELSE [empty |-> size = 0, n |-> n,
                          clean |-> Len(Split(item)) = n, at |-> Len(popped)])
        /\ UNCHANGED <<popped, poppedIdx>>

\* buffer.append(item) by a direct caller
append ==
    \E item \in Chunks :
        /\ AppendStep(item)
        /\ UNCHANGED <<streamVars, engVars, ioVars>>

\* buffer.pop()
pop ==
    LET r == PopFrom(Buf)
    IN  /\ buffer' = r.buf.buffer
        /\ head' = r.buf.head
        /\ size' = r.buf.size
        /\ tail' = r.buf.tail
        /\ element_size' = r.buf.element_size
        /\ ret' = r.item
        /\ popped' = (IF r.item = NoneBytes THEN popped ELSE Append(popped, r.item))
        /\ poppedIdx' = (IF size = 0 THEN poppedIdx ELSE Append(poppedIdx, slotIdx[tail]))
        /\ UNCHANGED <<stored, overflowed, appendAfterPop, oneEach, slotIdx, last,
                       streamVars, engVars, ioVars>>

-----------------------------------------------------------------------------
(* The transport stream: 5-byte records separated by the delimiter, read in *)
(* chunks of any length (serial read_all) and handed to append.             *)

Records == { <<1, 136, 19, 0, 0>>, <<2, 16, 0, 0, 0>> }

RECURSIVE JoinAll(_)
JoinAll(rs) ==
    IF Len(rs) = 0 THEN <<>>
    ELSE IF Len(rs) = 1 THEN rs[1]
    ELSE rs[1] \o Delimiter \o JoinAll(Tail(rs))

RecordSeqs == UNION { [1..n -> Records] : n \in 1..MaxRecords }

StreamInit ==
    /\ records \in RecordSeqs
    /\ pending = JoinAll(records)
    /\ reads = 0

NoStream ==
    /\ records = <<>>
    /\ pending = <<>>
    /\ reads = 0

\* response = ser.read_all(); buffer.append(response): the next k bytes
ReadChunk ==
    \E k \in 1..Len(pending) :
        /\ reads < MaxReads
        /\ AppendStep(SubSeq(pending, 1, k))
        /\ pending' = SubSeq(pending, k + 1, Len(pending))
        /\ reads' = reads + 1
        /\ UNCHANGED <<records, engVars, ioVars>>

\* records (id, distance_mm) a sender can frame; distance_mm as in UInt32
FrameRecords ==
    { [id |-> 1, data |-> [hi |-> 0, lo |-> 5000]],
      [id |-> 1, data |-> [hi |-> 0, lo |-> 16777215]],
      [id |-> 255, data |-> [hi |-> 0, lo |-> 65535]],
      [id |-> 0, data |-> [hi |-> 255, lo |-> 16777215]] }

\* the 5 bytes struct.unpack('<BI', ...) reads a record from: the id, then
\* distance_mm low byte first
Pack(r) ==
    <<r.id, r.data.lo % 256, (r.data.lo \div 256) % 256, r.data.lo \div 65536, r.data.hi>>

\* response = ser.read_all(); buffer.append(response): the response is one
\* whole record between two delimiters
AppendFrame ==
    \E r \in FrameRecords :
        /\ AppendStep(Delimiter \o Pack(r) \o Delimiter)
        /\ records' = Append(records, r)
        /\ UNCHANGED <<pending, reads, engVars, ioVars>>

-----------------------------------------------------------------------------
(* Position solver entry: multilateration                                   *)

NoneDist == -1000000

AnchorIds == {1, 2, 3, 4}

\* ids of anchors no distance is ever reported for
FarIds == {5, 6, 7}

\* the position configured for each anchor id
AnchorPosition == [i \in AnchorIds \cup FarIds |->
    IF i = 1 THEN <<0, 0, 0>> ELSE IF i = 2 THEN <<3, 0, 0>>
    ELSE IF i = 3 THEN <<0, 3, 0>> ELSE IF i = 4 THEN <<3, 3, 0>>
    ELSE <<i, i, 3>>]

\* anchor-position tables: a dict id -> (x, y, z)
AnchorTables ==
    { [i \in S |-> AnchorPosition[i]] : S \in (SUBSET AnchorIds) \cup {FarIds} }

\* values of one entry of a distance dict
DistValues == {NoneDist, 2, 60, 150}

\* distance dicts: id -> distance or None
DistanceMaps == UNION { [S -> DistValues] : S \in SUBSET AnchorIds }

ZSigns == {-1, 0, 1}

\* what the localization library does once P.solve() is called: it sets the
\* target location, or it raises
SolverOutcomes ==
    { [kind |-> "loc", loc |-> <<1, 2, z>>] : z \in {-1, 0, 1} }
    \cup { [kind |-> "raise", exc |-> e] : e \in {"ValueError", "OtherError"} }

Abs(n) == IF n < 0 THEN -n ELSE n

Raise(exc, msg) == [kind |-> "raise", exc |-> exc, msg |-> msg]
Return(v) == [kind |-> "return", value |-> v]

\* the project before any anchor or measure was added
NotInvoked == [anchors |-> <<>>, measures |-> <<>>, solved |-> FALSE]

\* non_zero_data that keeps the None entries
NonZeroData_KeepNone(raw_data) == raw_data

\* non_zero_data: the entries of raw_data that are not None
NonZeroData(raw_data) ==
    [i \in {j \in DOMAIN raw_data : raw_data[j] # NoneDist} |-> raw_data[i]]

\* matched_ids
MatchedIds(non_zero_data, anchor_positions) ==
    (DOMAIN non_zero_data) \cap (DOMAIN anchor_positions)

\* entry checks that let two common anchors through
EntryError_TwoCommon(non_zero_data, anchor_positions) ==
    IF Cardinality(DOMAIN non_zero_data) < 3 THEN "Not enough data"
    ELSE IF Cardinality(DOMAIN anchor_positions) < 3 THEN "Not enough anchor positions"
    ELSE IF Cardinality(MatchedIds(non_zero_data, anchor_positions)) < 2
         THEN "Not enough common anchors"
    ELSE ""

\* entry checks without the check of the common anchors
EntryError_NoMatch(non_zero_data, anchor_positions) ==
    IF Cardinality(DOMAIN non_zero_data) < 3 THEN "Not enough data"
    ELSE IF Cardinality(DOMAIN anchor_positions) < 3 THEN "Not enough anchor positions"
    ELSE ""

\* the entry checks, in the order the function makes them: the message of
\* the first check that fails, "" when all pass
EntryError(non_zero_data, anchor_positions) ==
    IF Cardinality(DOMAIN non_zero_data) < 3 THEN "Not enough data"
    ELSE IF Cardinality(DOMAIN anchor_positions) < 3 THEN "Not enough anchor positions"
    ELSE IF Cardinality(MatchedIds(non_zero_data, anchor_positions)) < 3
         THEN "Not enough common anchors"
    ELSE ""

\* a policy that leaves the solved location as it is
ApplyZSign_Keep(loc, z_sign) == loc

\* the z-sign policy applied to the solved location
ApplyZSign(loc, z_sign) ==
    IF z_sign # 0 THEN <<loc[1], loc[2], Abs(loc[3]) * z_sign>> ELSE loc

\* multilateration(raw_data, anchor_positions, z_sign): the outcome of the
\* call and what the project P received
multilateration(raw_data, anchor_positions, z_sign, outcome) ==
    LET non_zero_data == NonZeroData(raw_data)
        err == EntryError(non_zero_data, anchor_positions)
        matched_ids == MatchedIds(non_zero_data, anchor_positions)
        P == [anchors |-> [i \in matched_ids |-> anchor_positions[i]],
              measures |-> [i \in matched_ids |-> non_zero_data[i]],
              solved |-> TRUE]
    IN  IF err # "" THEN [res |-> Raise("ValueError", err), P |-> NotInvoked]
        ELSE IF outcome.kind = "raise"
             THEN [res |-> Raise(outcome.exc, "solve"), P |-> P]
        ELSE [res |-> Return(ApplyZSign(outcome.loc, z_sign)), P |-> P]

Idle == call = Absent

\* a direct call of multilateration
CallMultilateration ==
    /\ Idle
    /\ \E raw_data \in DistanceMaps, anchor_positions \in AnchorTables,
          z_sign \in ZSigns, outcome \in SolverOutcomes :
          LET r == multilateration(raw_data, anchor_positions, z_sign, outcome)
          IN  call' = [op |-> "multilateration", raw_data |-> raw_data,
                       anchor_positions |-> anchor_positions, z_sign |-> z_sign,
                       outcome |-> outcome, res |-> r.res, P |-> r.P]
    /\ UNCHANGED <<bufVars, streamVars, ioVars, engine, app>>

\* the caller takes the outcome of the call
CallReturn ==
    /\ ~Idle
    /\ call' = Absent
    /\ UNCHANGED <<bufVars, streamVars, ioVars, engine, app>>

-----------------------------------------------------------------------------
(* Floating-point arithmetic                                                *)

\* A Python float is an IEEE 754 binary64 number: a sign, a significand of 53
\* bits and an exponent, here neg, man and exp with value man * 2^exp; zero
\* has an empty significand. An operation returns the exact result rounded to
\* the nearest such number, ties to the even significand. Significands and
\* the exact results are naturals wider than 32 bits, kept as sequences of
\* limbs, least significant first, without leading zero limbs. Infinities,
\* NaN and subnormal numbers are not reached by the values used here.

Base == 2^15

RECURSIVE Trim(_)
Trim(a) ==
    IF a = <<>> \/ a[Len(a)] # 0 THEN a ELSE Trim(SubSeq(a, 1, Len(a) - 1))

RECURSIVE Limbs(_)
Limbs(n) == IF n = 0 THEN <<>> ELSE <<n % Base>> \o Limbs(n \div Base)

Rest(a) == IF a = <<>> THEN <<>> ELSE Tail(a)
First(a) == IF a = <<>> THEN 0 ELSE a[1]

RECURSIVE AddCarry(_, _, _)
AddCarry(a, b, c) ==
    IF a = <<>> /\ b = <<>>
    THEN IF c = 0 THEN <<>> ELSE <<c>>
    ELSE LET s == First(a) + First(b) + c
         IN  <<s % Base>> \o AddCarry(Rest(a), Rest(b), s \div Base)

Add(a, b) == AddCarry(a, b, 0)

RECURSIVE SubBorrow(_, _, _)
SubBorrow(a, b, c) ==
    IF a = <<>> THEN <<>>
    ELSE LET s == a[1] - First(b) - c
         IN  <<(s + Base) % Base>> \o SubBorrow(Tail(a), Rest(b), IF s < 0 THEN 1 ELSE 0)

\* a - b for a >= b
Sub(a, b) == Trim(SubBorrow(a, b, 0))

RECURSIVE CmpFrom(_, _, _)
CmpFrom(a, b, i) ==
    IF i = 0 THEN 0
    ELSE IF a[i] < b[i] THEN -1
    ELSE IF a[i] > b[i] THEN 1
    ELSE CmpFrom(a, b, i - 1)

\* -1, 0 or 1 as a < b, a = b or a > b
Cmp(a, b) ==
    IF Len(a) < Len(b) THEN -1
    ELSE IF Len(a) > Len(b) THEN 1
    ELSE CmpFrom(a, b, Len(a))

RECURSIVE MulLimb(_, _, _)
MulLimb(a, d, c) ==
    IF a = <<>>
    THEN IF c = 0 THEN <<>> ELSE <<c>>
    ELSE LET s == a[1] * d + c
         IN  <<s % Base>> \o MulLimb(Tail(a), d, s \div Base)

RECURSIVE Mul(_, _)
Mul(a, b) ==
    IF a = <<>> \/ b = <<>> THEN <<>>
    ELSE LET high == Mul(a, Tail(b))
         IN  Add(Trim(MulLimb(a, b[1], 0)), IF high = <<>> THEN <<>> ELSE <<0>> \o high)

\* a * 2^k
ShiftLeft(a, k) ==
    IF a = <<>> THEN <<>>
    ELSE [i \in 1..(k \div 15) |-> 0] \o MulLimb(a, 2^(k % 15), 0)

\* a \div 2^k
ShiftRight(a, k) ==
    LET b == SubSeq(a, (k \div 15) + 1, Len(a))
        p == 2^(k % 15)
    IN  Trim([i \in 1..Len(b) |->
                (b[i] \div p) + (IF i < Len(b) THEN (b[i + 1] % p) * (Base \div p) ELSE 0)])

RECURSIVE Width(_)
Width(n) == IF n = 0 THEN 0 ELSE 1 + Width(n \div 2)

\* the number of bits of a
BitLen(a) == IF a = <<>> THEN 0 ELSE 15 * (Len(a) - 1) + Width(a[Len(a)])

One == <<1>>

\* b * d for a limb d
Times(b, d) == Trim(MulLimb(b, d, 0))

\* the largest limb t >= st.d, t < st.d + 2^st.i, with st.b * t <= st.r
RECURSIVE DivDigit(_)
DivDigit(st) ==
    IF st.i = 0 THEN st.d
    ELSE LET t == st.d + 2^(st.i - 1)
         IN  DivDigit([st EXCEPT !.d = IF Cmp(Times(st.b, t), st.r) <= 0 THEN t ELSE st.d,
                                 !.i = st.i - 1])

\* long division of a by b, one limb of a at a time from the most
\* significant; st.i limbs of a are left, st.q and st.r are the quotient and
\* the remainder so far
RECURSIVE DivStep(_, _, _)
DivStep(a, b, st) ==
    IF st.i = 0 THEN st
    ELSE LET r == Trim(<<a[st.i]>> \o st.r)
             d == DivDigit([r |-> r, b |-> b, d |-> 0, i |-> 15])
         IN  DivStep(a, b, [q |-> Trim(<<d>> \o st.q), r |-> Sub(r, Times(b, d)),
                            i |-> st.i - 1])

\* quotient and remainder of a by b > 0
DivMod(a, b) == DivStep(a, b, [q |-> <<>>, r |-> <<>>, i |-> Len(a)])

\* the largest limb t >= st.d, t < st.d + 2^st.i, with (st.r * Base + t)^2 <= st.m
RECURSIVE SqrtDigit(_)
SqrtDigit(st) ==
    IF st.i = 0 THEN st.d
    ELSE LET t == st.d + 2^(st.i - 1)
             c == <<t>> \o st.r
         IN  SqrtDigit([st EXCEPT !.d = IF Cmp(Mul(c, c), st.m) <= 0 THEN t ELSE st.d,
                                  !.i = st.i - 1])

\* the square root of m, one limb at a time from the most significant;
\* st.i limbs are left, st.r is the root so far
RECURSIVE SqrtStep(_, _)
SqrtStep(m, st) ==
    IF st.i = 0 THEN st.r
    ELSE LET d == SqrtDigit([m |-> SubSeq(m, 2 * st.i - 1, Len(m)), r |-> st.r,
                             d |-> 0, i |-> 15])
         IN  SqrtStep(m, [r |-> Trim(<<d>> \o st.r), i |-> st.i - 1])

\* the integer square root of m
ISqrt(m) == SqrtStep(m, [r |-> <<>>, i |-> (Len(m) + 1) \div 2])

\* the float nearest to (-1)^neg * m * 2^e, ties to even
RECURSIVE Round(_, _, _)
Round(neg, m, e) ==
    LET n == BitLen(m)
    IN  IF n = 0 THEN [neg |-> neg, man |-> <<>>, exp |-> 0]
        ELSE IF n <= 53
        THEN [neg |-> neg, man |-> ShiftLeft(m, 53 - n), exp |-> e - (53 - n)]
        ELSE LET k == n - 53
                 q == ShiftRight(m, k)
                 c == Cmp(Sub(m, ShiftLeft(q, k)), ShiftLeft(One, k - 1))
             IN  IF c = 1 \/ (c = 0 /\ q[1] % 2 = 1)
                 THEN Round(neg, Add(q, One), e + k)
                 ELSE [neg |-> neg, man |-> q, exp |-> e + k]

\* the float of the number n * 2^e
Float64(n, e) == Round(n < 0, Limbs(IF n < 0 THEN -n ELSE n), e)

IsZero(a) == a.man = <<>>

\* a * b
fmul(a, b) == Round(a.neg # b.neg, Mul(a.man, b.man), a.exp + b.exp)

\* a + b
fadd(a, b) ==
    IF IsZero(a) /\ IsZero(b) THEN [neg |-> a.neg /\ b.neg, man |-> <<>>, exp |-> 0]
    ELSE IF IsZero(a) THEN b
    ELSE IF IsZero(b) THEN a
    ELSE LET e == IF a.exp < b.exp THEN a.exp ELSE b.exp
             x == ShiftLeft(a.man, a.exp - e)
             y == ShiftLeft(b.man, b.exp - e)
             c == Cmp(x, y)
         IN  IF a.neg = b.neg THEN Round(a.neg, Add(x, y), e)
             ELSE IF c = 0 THEN [neg |-> FALSE, man |-> <<>>, exp |-> 0]
             ELSE IF c = 1 THEN Round(a.neg, Sub(x, y), e)
             ELSE Round(b.neg, Sub(y, x), e)

\* a - b
fsub(a, b) == fadd(a, [b EXCEPT !.neg = ~b.neg])

\* a / b for b # 0
fdiv(a, b) ==
    LET d == DivMod(ShiftLeft(a.man, 57), b.man)
    IN  Round(a.neg # b.neg,
              Add(ShiftLeft(d.q, 1), IF d.r = <<>> THEN <<>> ELSE One),
              a.exp - b.exp - 58)

\* math.sqrt(a) for a >= 0
math_sqrt(a) ==
    IF IsZero(a) THEN a
    ELSE LET s == IF a.exp % 2 = 0 THEN 58 ELSE 59
             m == ShiftLeft(a.man, s)
             r == ISqrt(m)
         IN  Round(FALSE,
                   Add(ShiftLeft(r, 1), IF Cmp(Mul(r, r), m) = 0 THEN <<>> ELSE One),
                   ((a.exp - s) \div 2) - 1)

\* a <= 0 and a < 0
NotPositive(a) == IsZero(a) \/ a.neg
Negative(a) == a.neg /\ ~IsZero(a)

-----------------------------------------------------------------------------
(* solve_position                                                           *)

\* a clamp that lets a negative z2 through unchanged in magnitude
Clamp_Abs(z2) == [z2 EXCEPT !.neg = FALSE]

\* if z2 < 0: z2 = 0.0
Clamp(z2) == IF Negative(z2) THEN Float64(0, 0) ELSE z2

\* a factor that ignores z_sign
SignFactor_Upper(z_sign) == Float64(1, 0)

\* (1 if z_sign >= 0 else -1)
SignFactor(z_sign) == Float64(IF z_sign >= 0 THEN 1 ELSE -1, 0)

\* a divisor that leaves out the factor 2.0
Twice_Once(L) == L

\* 2.0 * L2 and 2.0 * L3
Twice(L) == fmul(Float64(2, 0), L)

\* a guard that rejects only negative lengths
Degenerate_Negative(L2, L3) == Negative(L2) \/ Negative(L3)

\* if L2 <= 0 or L3 <= 0
Degenerate(L2, L3) == NotPositive(L2) \/ NotPositive(L3)

\* solve_position(d1, d2, d3, z_sign, eps, L2, L3); eps is not used
solve_position(d1, d2, d3, z_sign, L2, L3) ==
    IF Degenerate(L2, L3)
    THEN Raise("ValueError", "L2 and L3 must be positive")
    ELSE LET d1d1 == fmul(d1, d1)
             x == fdiv(fsub(fadd(fmul(L2, L2), d1d1), fmul(d2, d2)),
                       Twice(L2))
             y == fdiv(fsub(fadd(fmul(L3, L3), d1d1), fmul(d3, d3)),
                       Twice(L3))
             z2 == fsub(fsub(d1d1, fmul(x, x)), fmul(y, y))
             z == fmul(math_sqrt(Clamp(z2)), SignFactor(z_sign))
         IN  Return(<<x, y, z>>)

\* None where a position is expected
NonePos == <<>>

\* the values given for L2 and for L3: the argument left out, or a length
Lengths == {Absent, Float64(3, 0), Float64(1, 0), Float64(0, 0), Float64(-1, 0)}

\* L2: float = 0, L3: float = 0
Default(L) == IF L = Absent THEN Float64(0, 0) ELSE L

\* the known points, in metres
Points == { <<1, 1, 0>>, <<1, 1, 1>>, <<1, 1, -1>>, <<2, 1, -2>>, <<0, 3, 4>>,
            <<100, -100, 0>>, <<16384, 1, 0>> }

\* the distance between the points p and a, as the tests compute it
Dist(p, a) ==
    LET dx == fsub(p[1], a[1])
        dy == fsub(p[2], a[2])
        dz == fsub(p[3], a[3])
    IN  math_sqrt(fadd(fadd(fmul(dx, dx), fmul(dy, dy)), fmul(dz, dz)))

\* the distances of the point P to the anchors A1 = (0, 0, 0),
\* A2 = (L2, 0, 0) and A3 = (0, L3, 0)
Derived(P, L2, L3) ==
    LET p == <<Float64(P[1], 0), Float64(P[2], 0), Float64(P[3], 0)>>
        O == Float64(0, 0)
    IN  <<Dist(p, <<O, O, O>>), Dist(p, <<L2, O, O>>), Dist(p, <<O, L3, O>>)>>

\* measured distances that no point has: 1, 5, 5 and 0.5, 1, 1
Measured ==
    { <<Float64(1, 0), Float64(5, 0), Float64(5, 0)>>,
      <<Float64(1, -1), Float64(1, 0), Float64(1, 0)>> }

\* the record of a call solve_position(d1, d2, d3, z_sign, L2=L2, L3=L3); P is
\* the point the distances were derived from
SolveCall(d, z_sign, L2, L3, P) ==
    [op |-> "solve_position", d1 |-> d[1], d2 |-> d[2], d3 |-> d[3],
     z_sign |-> z_sign, L2 |-> L2, L3 |-> L3, P |-> P,
     res |-> solve_position(d[1], d[2], d[3], z_sign, Default(L2), Default(L3))]

\* a direct call of solve_position
CallSolvePosition ==
    /\ Idle
    /\ \E L2 \in Lengths, L3 \in Lengths, z_sign \in ZSigns :
          \/ \E P \in Points :
                call' = SolveCall(Derived(P, Default(L2), Default(L3)), z_sign, L2, L3, P)
          \/ \E d \in Measured :
                call' = SolveCall(d, z_sign, L2, L3, NonePos)
    /\ UNCHANGED <<bufVars, streamVars, ioVars, engine, app>>

-----------------------------------------------------------------------------
(* LocalizationEngine                                                       *)

\* calibration_type with calibration_params, as given to the constructor
\* (an omitted calibration_params is the empty list)
CalConfigs ==
    { <<"none", <<>>>>, <<"none", <<1, 0>>>>,
      <<"linear", <<2, 1>>>>, <<"linear", <<1, 0>>>>, <<"linear", <<>>>>,
      <<"quadratic", <<1, 2, 1>>>>, <<"quadratic", <<2, 1>>>>,
      <<"cubic", <<0, 1, 2, 1>>>>, <<"cubic", <<1, 2, 1>>>> }

\* min_range with max_range
Ranges == { <<0, 100>>, <<2, 60>> }

\* a constructor that also validates the parameter count
InitError_Arity(anchor_positions, calibration_type, calibration_params) ==
    IF Cardinality(DOMAIN anchor_positions) < 3
    THEN "At least 3 anchor positions"
    ELSE IF \/ calibration_type = "linear" /\ Len(calibration_params) # 2
            \/ calibration_type = "quadratic" /\ Len(calibration_params) # 3
            \/ calibration_type = "cubic" /\ Len(calibration_params) # 4
    THEN "Wrong number of calibration parameters"
    ELSE ""

\* a constructor that accepts two anchors
InitError_Two(anchor_positions, calibration_type, calibration_params) ==
    IF Cardinality(DOMAIN anchor_positions) < 2
    THEN "At least 3 anchor positions"
    ELSE ""

\* the validation made by __init__: the message of the error, "" when none
InitError(anchor_positions, calibration_type, calibration_params) ==
    IF Cardinality(DOMAIN anchor_positions) < 3
    THEN "At least 3 anchor positions"
    ELSE ""

\* LocalizationEngine(...): the engine, or the error raised
EngineInit(anchor_positions, calibration_type, calibration_params, z_sign, min_range, max_range) ==
    LET self == [anchor_positions |-> anchor_positions,
                 calibration_type |-> calibration_type,
                 calibration_params |-> calibration_params,
                 z_sign |-> z_sign,
                 min_range |-> min_range,
                 max_range |-> max_range]
        err == InitError(anchor_positions, calibration_type, calibration_params)
    IN  IF err # "" THEN Raise("ValueError", err) ELSE Return(self)

\* a linear calibration without its offset
calibrated_linear_NoOffset(k, b, x) == k * x

calibrated_linear(k, b, x) == k * x + b
calibrated_quadratic(a, b, c, x) == a * x * x + b * x + c
calibrated_cubic(a, b, c, d, x) == a * x * x * x + b * x * x + c * x + d

\* engine.calibrate(raw_distance)
calibrate(self, raw_distance) ==
    LET p == self.calibration_params
    IN  IF self.calibration_type = "linear" THEN
            IF Len(p) # 2 THEN Raise("ValueError", "Linear calibration requires 2 parameters")
            ELSE Return(calibrated_linear(p[1], p[2], raw_distance))
        ELSE IF self.calibration_type = "quadratic" THEN
            IF Len(p) # 3 THEN Raise("ValueError", "Quadratic calibration requires 3 parameters")
            ELSE Return(calibrated_quadratic(p[1], p[2], p[3], raw_distance))
        ELSE IF self.calibration_type = "cubic" THEN
            IF Len(p) # 4 THEN Raise("ValueError", "Cubic calibration requires 4 parameters")
            ELSE Return(calibrated_cubic(p[1], p[2], p[3], p[4], raw_distance))
        ELSE Return(raw_distance)

\* a range check that excludes the upper bound
validate_range_Open(self, distance) ==
    self.min_range <= distance /\ distance < self.max_range

\* engine.validate_range(distance)
validate_range(self, distance) ==
    self.min_range <= distance /\ distance <= self.max_range

\* valid_distances without the range check
ValidDistances_NoRange(self, distances) ==
    [i \in {j \in DOMAIN distances : distances[j] # NoneDist} |-> distances[i]]

\* valid_distances: the entries of distances that are not None and in range
ValidDistances(self, distances) ==
    [i \in {j \in DOMAIN distances :
                distances[j] # NoneDist /\ validate_range(self, distances[j])}
       |-> distances[i]]

\* the except clause of calculate_position: the exceptions it turns into None
Caught(exc) == exc = "ValueError"

\* multilateration was not called
NoSolve == [res |-> Absent, P |-> NotInvoked]

\* engine.calculate_position(distances): the outcome, whether an error was
\* printed, valid_distances, and the multilateration call made (NoSolve when
\* none was made)
calculate_position(self, distances, outcome) ==
    LET valid_distances == ValidDistances(self, distances)
        m == multilateration(valid_distances, self.anchor_positions, self.z_sign, outcome)
    IN  IF Cardinality(DOMAIN valid_distances) < 3
        THEN [res |-> Return(NonePos), printed |-> FALSE,
              valid |-> valid_distances, solve |-> NoSolve]
        ELSE IF m.res.kind = "raise"
             THEN IF Caught(m.res.exc)
                  THEN [res |-> Return(NonePos), printed |-> TRUE,
                        valid |-> valid_distances, solve |-> m]
                  ELSE [res |-> m.res, printed |-> FALSE,
                        valid |-> valid_distances, solve |-> m]
        ELSE [res |-> m.res, printed |-> FALSE,
              valid |-> valid_distances, solve |-> m]

\* engine = LocalizationEngine(...)
Construct ==
    /\ Idle
    /\ engine = Absent
    /\ \E anchor_positions \in AnchorTables, cal \in CalConfigs,
          z_sign \in ZSigns, range \in Ranges :
          LET r == EngineInit(anchor_positions, cal[1], cal[2], z_sign,
                              range[1], range[2])
          IN  /\ call' = [op |-> "__init__", anchor_positions |-> anchor_positions,
                          calibration_type |-> cal[1], calibration_params |-> cal[2],
                          res |-> (IF r.kind = "raise" THEN r ELSE Return(NonePos))]
              /\ engine' = (IF r.kind = "raise" THEN Absent ELSE r.value)
    /\ UNCHANGED <<bufVars, streamVars, ioVars, app>>

RawDistances == {0, 2, 60, 150}

\* a method that clears calibration_params
EngineAfter_Clear(self) == [self EXCEPT !.calibration_params = <<>>]

\* the engine after calibrate, validate_range or calculate_position: none
\* of them assigns to an attribute of self
EngineAfter(self) == self

\* engine.calibrate(raw_distance)
CallCalibrate ==
    /\ Idle
    /\ engine # Absent
    /\ \E raw_distance \in RawDistances :
          call' = [op |-> "calibrate", raw_distance |-> raw_distance,
                   res |-> calibrate(engine, raw_distance)]
    /\ engine' = EngineAfter(engine)
    /\ UNCHANGED <<bufVars, streamVars, ioVars, app>>

\* engine.validate_range(distance)
CallValidateRange ==
    /\ Idle
    /\ engine # Absent
    /\ \E distance \in RawDistances \cup {-1, 100, 101} :
          call' = [op |-> "validate_range", distance |-> distance,
                   res |-> Return(validate_range(engine, distance))]
    /\ engine' = EngineAfter(engine)
    /\ UNCHANGED <<bufVars, streamVars, ioVars, app>>

\* engine.calculate_position(distances)
CallCalculatePosition ==
    /\ Idle
    /\ engine # Absent
    /\ \E distances \in DistanceMaps, outcome \in SolverOutcomes :
          LET r == calculate_position(engine, distances, outcome)
          IN  call' = [op |-> "calculate_position", distances |-> distances,
                       res |-> r.res, printed |-> r.printed,
                       valid |-> r.valid, solve |-> r.solve]
    /\ engine' = EngineAfter(engine)
    /\ UNCHANGED <<bufVars, streamVars, ioVars, app>>

-----------------------------------------------------------------------------
(* UWBLocalizerApp: start(), stop() and the distance callback               *)

HistoryLimit == 1000

\* [localization] sections of the configuration file
AppConfigs ==
    { [anchors |-> S, cal |-> c, z_sign |-> z] :
        S \in {{1, 2, 3}, {1, 2}},
        c \in { <<"none", <<1, 0>>>>, <<"linear", <<2, 1>>>>,
                <<"linear", <<1, -100>>>>, <<"linear", <<>>>> },
        z \in {0, 1} }

\* cycles delivered by an input adapter: id -> distance, never None
CycleMaps == UNION { [S -> {2, 60, 150}] : S \in SUBSET AnchorIds }

\* values of time.time()
Timestamps == {1, 2}

\* UWBLocalizerApp.__init__
NewApp(config) ==
    [config |-> config, pc |-> "new", engine |-> Absent, input_adapter |-> "none",
     output_adapter |-> FALSE, closed |-> FALSE, running |-> FALSE,
     last_position |-> NonePos, position_history |-> <<>>, sent |-> <<>>,
     stops |-> 0, closes |-> 0, late |-> FALSE]

\* the ids whose calibrate call raises
CalibrateRaises(self, distances) ==
    {i \in DOMAIN distances : calibrate(self, distances[i]).kind = "raise"}

\* calibrated_distances that keeps the raw value of each kept entry
CalibratedDistances_Raw(self, distances) ==
    [i \in {j \in DOMAIN distances :
                validate_range(self, calibrate(self, distances[j]).value)}
       |-> distances[i]]

\* calibrated_distances of _on_distance_update (no calibrate call raised)
CalibratedDistances(self, distances) ==
    [i \in {j \in DOMAIN distances :
                validate_range(self, calibrate(self, distances[j]).value)}
       |-> calibrate(self, distances[i]).value]

\* position_history after one more fix
HistoryAppend(h, entry) ==
    LET h1 == Append(h, entry)
    IN  IF Len(h1) > HistoryLimit THEN Tail(h1) ELSE h1

\* _on_distance_update(distances): the app afterwards and what the callback
\* did (calibrated and valid are empty when they were not computed)
on_distance_update(a, distances, outcome, timestamp) ==
    IF a.engine = Absent
    THEN [app |-> a, res |-> Return(NonePos), calibrated |-> <<>>,
          valid |-> <<>>, solve |-> NoSolve]
    ELSE IF CalibrateRaises(a.engine, distances) # {}
    THEN [app |-> a, res |-> Raise("ValueError", "calibrate"),
          calibrated |-> <<>>, valid |-> <<>>, solve |-> NoSolve]
    ELSE LET calibrated_distances == CalibratedDistances(a.engine, distances)
             r == calculate_position(a.engine, calibrated_distances, outcome)
             position == r.res.value
         IN  IF r.res.kind = "raise"
             THEN [app |-> a, res |-> r.res, calibrated |-> calibrated_distances,
                   valid |-> r.valid, solve |-> r.solve]
             ELSE IF position # NonePos
             THEN [app |-> [a EXCEPT
                              !.last_position = position,
                              !.sent = IF a.output_adapter
                                       THEN Append(@, <<position, timestamp>>) ELSE @,
                              !.late = @ \/ (a.output_adapter /\ a.closed),
                              !.position_history = HistoryAppend(@, <<timestamp, position>>)],
                   res |-> Return(NonePos), calibrated |-> calibrated_distances,
                   valid |-> r.valid, solve |-> r.solve]
             ELSE [app |-> a, res |-> Return(NonePos), calibrated |-> calibrated_distances,
                   valid |-> r.valid, solve |-> r.solve]

AppInit ==
    /\ engine = Absent
    /\ call = Absent
    /\ app \in { NewApp(c) : c \in AppConfigs }

\* start(): self.engine = self._create_localization_engine()
StartEngine ==
    /\ Idle
    /\ app.pc = "new"
    /\ LET c == app.config
           r == EngineInit([i \in c.anchors |-> AnchorPosition[i]],
                           c.cal[1], c.cal[2], c.z_sign, 0, 100)
       IN  app' = IF r.kind = "raise" THEN [app EXCEPT !.pc = "failed"]
                  ELSE [app EXCEPT !.pc = "engine", !.engine = r.value]
    /\ UNCHANGED <<bufVars, streamVars, ioVars, engine, call>>

\* start(): the input adapter is created and started with the callback
StartInput ==
    /\ Idle
    /\ app.pc = "engine"
    /\ app' = [app EXCEPT !.pc = "input", !.input_adapter = "running"]
    /\ UNCHANGED <<bufVars, streamVars, ioVars, engine, call>>

\* start(): the output adapter is created, then running = True
StartOutput ==
    /\ Idle
    /\ app.pc = "input"
    /\ app' = [app EXCEPT !.pc = "started", !.output_adapter = TRUE, !.running = TRUE]
    /\ UNCHANGED <<bufVars, streamVars, ioVars, engine, call>>

\* stop(): running = False; the input adapter, if set, is stopped, which
\* joins the reader thread for at most 2 seconds (joined: the thread ended
\* within them); the output adapter, if set, is closed. stops and closes
\* count the calls of input_adapter.stop() and output_adapter.close()
stop(a, joined) ==
    [a EXCEPT !.running = FALSE,
              !.input_adapter = IF @ = "running"
                                THEN (IF joined THEN "exited" ELSE "stopping")
                                ELSE @,
              !.stops = IF a.input_adapter # "none" THEN @ + 1 ELSE @,
              !.closed = @ \/ a.output_adapter,
              !.closes = IF a.output_adapter THEN @ + 1 ELSE @]

\* where sys.exit(0) of the handler takes the main thread: SystemExit is
\* raised where the signal arrived, inside the try statement of run() once
\* start() has returned, and then its finally clause runs
AfterExit(pc) == IF pc = "started" THEN "finally" ELSE "exited"

\* SIGINT or SIGTERM arrives while run() is in start() or in its loop:
\* _signal_handler calls self.stop(), then sys.exit(0)
SignalHandler ==
    /\ Idle
    /\ app.pc \in {"engine", "input", "started"}
    /\ \E joined \in BOOLEAN :
          app' = [stop(app, joined) EXCEPT !.pc = AfterExit(app.pc)]
    /\ UNCHANGED <<bufVars, streamVars, ioVars, engine, call>>

\* run(): finally: self.stop()
Finally ==
    /\ Idle
    /\ app.pc = "finally"
    /\ \E joined \in BOOLEAN :
          app' = [stop(app, joined) EXCEPT !.pc = "exited"]
    /\ UNCHANGED <<bufVars, streamVars, ioVars, engine, call>>

\* the reader thread sees running == False at its loop test and exits
ReaderExit ==
    /\ Idle
    /\ app.input_adapter = "stopping"
    /\ app' = [app EXCEPT !.input_adapter = "exited"]
    /\ UNCHANGED <<bufVars, streamVars, ioVars, engine, call>>

\* the reader thread of the started input adapter delivers one cycle
OnDistanceUpdate ==
    /\ Idle
    /\ app.input_adapter \in {"running", "stopping"}
    /\ Len(app.position_history) < MaxHistory
    /\ \E distances \in CycleMaps, outcome \in SolverOutcomes, timestamp \in Timestamps :
          LET r == on_distance_update(app, distances, outcome, timestamp)
          IN  /\ app' = [r.app EXCEPT !.input_adapter =
                            IF @ = "stopping" THEN "exited" ELSE @]
              /\ call' = [op |-> "_on_distance_update", distances |-> distances,
                          res |-> r.res, calibrated |-> r.calibrated,
                          valid |-> r.valid, solve |-> r.solve]
    /\ UNCHANGED <<bufVars, streamVars, ioVars, engine>>

\* the callback is over
CallbackReturn ==
    /\ ~Idle
    /\ call' = Absent
    /\ UNCHANGED <<bufVars, streamVars, ioVars, engine, app>>

NoEngine ==
    /\ engine = Absent
    /\ call = Absent
    /\ app = Absent

-----------------------------------------------------------------------------
(* Input adapters: the reader threads of the Serial, UDP and File adapters *)

\* CircularBuffer(100, element_size=7) of the SerialInputAdapter
SerialSlots == 100
SerialElementSize == 7

\* the dict {} and the assignment d[k] = v
EmptyMap == <<>>
MapSet(f, k, v) == [x \in DOMAIN f \cup {k} |-> IF x = k THEN v ELSE f[x]]

\* four bytes read high byte first
UInt32_BigEndian(b0, b1, b2, b3) == [hi |-> b0, lo |-> b3 + 256 * b2 + 65536 * b1]

\* the unsigned 32-bit integer of four bytes, low byte first: the value
\* hi * 2^24 + lo, kept in two parts
UInt32(b0, b1, b2, b3) == [hi |-> b3, lo |-> b0 + 256 * b1 + 65536 * b2]

\* struct.unpack('<BI', data): one byte, then four bytes, low byte first
Unpack(data) ==
    IF Len(data) # 5 THEN Raise("struct.error", "unpack requires a buffer of 5 bytes")
    ELSE Return([id |-> data[1], data |-> UInt32(data[2], data[3], data[4], data[5])])

\* message.data / 1000.0, kept as the exact quotient
Metres(data) == [num |-> data, den |-> 1000]

\* while self.buffer.size > 0: msg = pop(); Message(msg); ranges[id] = raw_val
\* d holds the buffer, ranges, the spans popped so far and the exception
\* that left the loop, if any
RECURSIVE Drain(_)
Drain(d) ==
    IF d.buf.size = 0 THEN d
    ELSE LET r == PopFrom(d.buf)
             message == Unpack(r.item)
             got == [d EXCEPT !.buf = r.buf, !.popped = Append(@, r.item),
                              !.decoded = Append(@, message)]
         IN  IF r.item = NoneBytes THEN Drain([d EXCEPT !.buf = r.buf])
             ELSE IF message.kind = "raise"
             THEN [got EXCEPT !.raised = message.exc]
             ELSE Drain([got EXCEPT !.ranges =
                            MapSet(@, message.value.id, Metres(message.value.data))])

\* frames and other byte runs a serial device puts between two delimiters
WireItems ==
    Records \cup { <<1, 16, 0, 0, 0>>, <<9, 9, 9>>, <<2, 1, 0, 0, 0, 0>> }

WireSeqs == UNION { [1..n -> WireItems] : n \in 1..MaxRecords }

\* what the callback given to start() does when it is called
CallbackOutcomes == {"ok", "raise"}

\* the adapter object after __init__
NewReader(kind) ==
    [kind |-> kind, running |-> FALSE, stopped |-> FALSE, pc |-> "new",
     buffer |-> IF kind = "serial" THEN NewBuffer(SerialSlots, SerialElementSize)
                ELSE Absent,
     ranges |-> EmptyMap, cycle |-> Absent, failed |-> FALSE, delivered |-> 0,
     order |-> <<>>]

\* one pass of the loop body that read nothing and raised nothing: what
\* was popped and decoded, the exception raised, whether a callback is due
\* and with which argument, the callbacks made, ranges before the pass and
\* the buffer after the append
NoCycle ==
    [read |-> FALSE, popped |-> <<>>, decoded |-> <<>>, raised |-> "none",
     due |-> FALSE, arg |-> EmptyMap, callbacks |-> <<>>, before |-> EmptyMap,
     appended |-> Absent]

\* the body of the while loop of SerialInputAdapter._read_loop up to the
\* call of the callback: k bytes are waiting (0: in_waiting is 0)
SerialBody(r, k) ==
    IF r.stopped THEN [r EXCEPT !.cycle = [NoCycle EXCEPT !.raised = "PortNotOpenError"]]
    ELSE IF k = 0 THEN [r EXCEPT !.cycle = NoCycle]
    ELSE LET response == SubSeq(pending, 1, k)
             appended == AppendTo(r.buffer, response)
             d == Drain([buf |-> appended, ranges |-> r.ranges, popped |-> <<>>,
                         decoded |-> <<>>, raised |-> "none"])
             due == d.raised = "none" /\ d.ranges # EmptyMap
         IN  [r EXCEPT !.buffer = d.buf, !.ranges = d.ranges,
                       !.cycle = [NoCycle EXCEPT !.read = TRUE, !.popped = d.popped,
                                     !.decoded = d.decoded, !.raised = d.raised,
                                     !.due = due,
                                     !.arg = IF due THEN d.ranges ELSE EmptyMap,
                                     !.before = r.ranges, !.appended = appended]]

\* self.callback(...) and, in the serial loop, ranges.clear() behind it: the
\* callback returns or raises
Called(r, cb) ==
    [r EXCEPT !.delivered = @ + 1,
              !.order = Append(@, reads),
              !.cycle = [@ EXCEPT !.callbacks = <<r.cycle.arg>>,
                                  !.raised = IF cb = "ok" THEN "none" ELSE "callback"],
              !.ranges = IF r.kind = "serial" /\ cb = "ok" THEN EmptyMap ELSE @]

\* a loop that ends when its body raises
AfterBody_Exit(raised) == IF raised = "none" THEN "test" ELSE "exited"

\* the try statement lies inside the while loop: whether the body raised or
\* not, the thread is next at the loop test
AfterBody(raised) == "test"

\* the reader after the pass of the loop body that made it r2; failed
\* records that some pass raised
EndCycle(r2) ==
    [r2 EXCEPT !.pc = AfterBody(r2.cycle.raised),
               !.failed = (@ \/ r2.cycle.raised # "none")]

\* a loop body that goes on without calling the callback that is due
AfterDrain_Skip(due) == "done"

\* if ranges and self.callback: the thread calls the callback itself, inside
\* the pass, when one is due
AfterDrain(due) == IF due THEN "callback" ELSE "done"

\* the reader once the body has read, drained and converted
PassEnd(r2) ==
    IF AfterDrain(r2.cycle.due) = "callback" THEN [r2 EXCEPT !.pc = "callback"]
    ELSE EndCycle(r2)

\* int(k) of a string of decimal digits
RECURSIVE ParseInt(_)
ParseInt(k) ==
    IF k = NoneBytes THEN Raise("KeyError", "id")
    ELSE IF k = <<>> \/ \E i \in 1..Len(k) : k[i] \notin 48..57
    THEN Raise("ValueError", "invalid literal for int()")
    ELSE IF Len(k) = 1 THEN Return(k[1] - 48)
    ELSE Return(10 * ParseInt(SubSeq(k, 1, Len(k) - 1)).value + (k[Len(k)] - 48))

\* float(v) of a JSON number or null
Float(v) ==
    IF v = NoneDist THEN Raise("TypeError", "float() argument") ELSE Return(v)

\* {int(k): float(v) for ...} over the items of a JSON dict or list
RECURSIVE Comprehension(_, _)
Comprehension(items, acc) ==
    IF items = <<>> THEN Return(acc)
    ELSE LET k == ParseInt(items[1][1])
             v == Float(items[1][2])
         IN  IF k.kind = "raise" THEN k
             ELSE IF v.kind = "raise" THEN v
             ELSE Comprehension(Tail(items), MapSet(acc, k.value, v.value))

\* what json.loads / json.load yields: a document that does not parse, a
\* scalar, a dict of key/value pairs or a list of id/distance items (an
\* item without "id" has the id NoneBytes)
JsonDocs ==
    { [type |-> "invalid", items |-> <<>>],
      [type |-> "scalar", items |-> <<>>],
      [type |-> "dict", items |-> << <<<<49>>, 2>>, <<<<50>>, 60>>, <<<<51>>, 5>> >>],
      [type |-> "dict", items |-> << <<<<97>>, 2>> >>],
      [type |-> "list", items |-> << <<<<49>>, 2>>, <<<<49>>, 60>> >>],
      [type |-> "list", items |-> << <<NoneBytes, 2>> >>] }

\* the try block shared by the UDP and the File loop body up to the call of
\* the callback: parse and convert
Deliver(r, doc) ==
    LET distances == Comprehension(doc.items, EmptyMap)
        c == [NoCycle EXCEPT !.read = TRUE]
    IN  IF doc.type = "invalid"
        THEN [r EXCEPT !.cycle = [c EXCEPT !.raised = "JSONDecodeError"]]
        ELSE IF doc.type = "scalar" THEN [r EXCEPT !.cycle = c]
        ELSE IF distances.kind = "raise"
        THEN [r EXCEPT !.cycle = [c EXCEPT !.raised = distances.exc]]
        ELSE [r EXCEPT !.cycle = [c EXCEPT !.due = TRUE, !.arg = distances.value]]

\* the body of the while loop of UDPInputAdapter._read_loop: recvfrom timed
\* out, or raised on the closed socket, or returned the document doc
UdpBody(r, timeout, doc) ==
    IF r.stopped THEN [r EXCEPT !.cycle = [NoCycle EXCEPT !.raised = "OSError"]]
    ELSE IF timeout THEN [r EXCEPT !.cycle = NoCycle]
    ELSE Deliver(r, doc)

\* the body of the while loop of FileInputAdapter._read_loop: the file is
\* missing or holds the document doc
FileBody(r, missing, doc) ==
    IF missing THEN [r EXCEPT !.cycle = [NoCycle EXCEPT !.raised = "FileNotFoundError"]]
    ELSE Deliver(r, doc)

\* while self.running: where the thread goes from the loop test
WhileRunning_Forever(running) == "body"

WhileRunning(running) == IF running THEN "body" ELSE "exited"

AdapterKinds == {"serial", "udp", "file"}

\* start(callback): opening the port or binding the socket may raise
StartAdapter ==
    /\ reader.pc = "new"
    /\ \E ok \in BOOLEAN :
          /\ reader.kind = "file" => ok
          /\ reader' = IF ok THEN [reader EXCEPT !.running = TRUE, !.pc = "test"]
                        ELSE [reader EXCEPT !.pc = "failed"]
    /\ UNCHANGED <<bufVars, streamVars, engVars, multi>>

\* stop(): self.running = False, close the port or socket, join for 2 s
StopAdapter ==
    /\ reader.pc # "new"
    /\ ~reader.stopped
    /\ reader' = [reader EXCEPT !.running = FALSE, !.stopped = TRUE]
    /\ UNCHANGED <<bufVars, streamVars, engVars, multi>>

\* the reader thread evaluates the condition of its while loop
LoopTest ==
    /\ reader.pc = "test"
    /\ reader' = [reader EXCEPT !.pc = WhileRunning(reader.running)]
    /\ UNCHANGED <<bufVars, streamVars, engVars, multi>>

\* the numbers of bytes in_waiting may find: none, all that is pending, a
\* frame cut after its second byte, a frame with the delimiter behind it
Waiting(p) == {0, Len(p)} \cup ({2, 9} \cap 1..Len(p))

\* one pass of the body of SerialInputAdapter._read_loop
SerialCycle ==
    /\ reader.kind = "serial"
    /\ reader.pc = "body"
    /\ \E k \in Waiting(pending) :
          LET took == k > 0 /\ ~reader.stopped
          IN  /\ k > 0 => reads < MaxReads
              /\ reader' = PassEnd(SerialBody(reader, k))
              /\ pending' = IF took THEN SubSeq(pending, k + 1, Len(pending))
                             ELSE pending
              /\ reads' = IF took THEN reads + 1 ELSE reads
    /\ UNCHANGED <<bufVars, records, engVars, multi>>

\* one pass of the body of UDPInputAdapter._read_loop
UdpCycle ==
    /\ reader.kind = "udp"
    /\ reader.pc = "body"
    /\ \E timeout \in BOOLEAN, doc \in JsonDocs :
          LET took == ~timeout /\ ~reader.stopped
          IN  /\ ~timeout => reads < MaxReads
              /\ reader' = PassEnd(UdpBody(reader, timeout, doc))
              /\ reads' = IF took THEN reads + 1 ELSE reads
    /\ UNCHANGED <<bufVars, pending, records, engVars, multi>>

\* one pass of the body of FileInputAdapter._read_loop
FileCycle ==
    /\ reader.kind = "file"
    /\ reader.pc = "body"
    /\ \E missing \in BOOLEAN, doc \in JsonDocs :
          /\ ~missing => reads < MaxReads
          /\ reader' = PassEnd(FileBody(reader, missing, doc))
          /\ reads' = IF missing THEN reads ELSE reads + 1
    /\ UNCHANGED <<bufVars, pending, records, engVars, multi>>

\* the callback called by the reader thread returns or raises, which ends
\* the pass
ReaderCallback ==
    /\ reader.pc = "callback"
    /\ \E cb \in CallbackOutcomes : reader' = EndCycle(Called(reader, cb))
    /\ UNCHANGED <<bufVars, streamVars, engVars, multi>>

\* a started or not yet started adapter of one kind, with its transport
ReaderInit(kinds, streams) ==
    /\ reader \in { NewReader(kind) : kind \in kinds }
    /\ records \in (IF reader.kind = "serial" THEN streams ELSE {<<>>})
    /\ pending = JoinAll(records)
    /\ reads = 0

-----------------------------------------------------------------------------
(* MultiOutputAdapter *)

\* timestamp=None
NoneTime == -1

Positions == { <<1, 2, 3>>, <<0, 0, 0>> }

\* what a call on a child adapter does: return, or raise an exception
ChildOutcomes == {"ok", "OSError", "Exception"}

\* MultiOutputAdapter(adapters) over n children that received no call yet
NewMulti(n) == [adapters |-> [i \in 1..n |-> <<>>], calls |-> 0]

\* a loop whose try statement lets the exception of a child escape
ExceptException_None(outcome) == FALSE

\* except Exception as e: the exception of a child is caught in the loop body
ExceptException(outcome) == outcome \in {"OSError", "Exception"}

\* for adapter in self.adapters: try: adapter.<op>(...) except Exception: print
\* acc holds the children, the calls made so far in order, the lines
\* printed, and the exception that left the loop, if any
RECURSIVE ForAdapters(_, _, _, _)
ForAdapters(acc, i, rec, outcomes) ==
    IF i > Len(acc.adapters) THEN acc
    ELSE LET called == [acc EXCEPT !.adapters[i] = Append(@, rec),
                                   !.order = Append(@, [child |-> i, rec |-> rec])]
         IN  IF outcomes[i] = "ok"
             THEN ForAdapters(called, i + 1, rec, outcomes)
             ELSE IF ExceptException(outcomes[i])
             THEN ForAdapters([called EXCEPT !.printed = Append(@, i)],
                              i + 1, rec, outcomes)
             ELSE [called EXCEPT !.res = Raise(outcomes[i], "")]

\* the body of send_position and of close on the adapter m
MultiCall(m, rec, outcomes) ==
    ForAdapters([adapters |-> m.adapters, order |-> <<>>, printed |-> <<>>,
                 res |-> Return("None")],
                1, rec, outcomes)

\* MultiOutputAdapter.send_position(position, timestamp)
send_position(m, position, timestamp, outcomes) ==
    MultiCall(m, [op |-> "send_position", position |-> position,
                  timestamp |-> timestamp], outcomes)

\* MultiOutputAdapter.close()
close(m, outcomes) == MultiCall(m, [op |-> "close"], outcomes)

MultiInit ==
    /\ multi \in { NewMulti(n) : n \in 0..MaxChildren }
    /\ call = Absent

InMulti == call # Absent /\ call.op \in {"send_position", "close"}

\* a call of multi.send_position(position, timestamp)
CallSendPosition ==
    /\ Idle
    /\ multi.calls < MaxCalls
    /\ \E position \in Positions, timestamp \in Timestamps \cup {NoneTime},
          outcomes \in [1..Len(multi.adapters) -> ChildOutcomes] :
          LET r == send_position(multi, position, timestamp, outcomes)
          IN  /\ multi' = [adapters |-> r.adapters, calls |-> multi.calls + 1]
              /\ call' = [op |-> "send_position", position |-> position,
                          timestamp |-> timestamp, outcomes |-> outcomes,
                          before |-> multi.adapters, order |-> r.order,
                          printed |-> r.printed, res |-> r.res]
    /\ UNCHANGED <<bufVars, streamVars, engine, app, reader>>

\* a call of multi.close()
CallClose ==
    /\ Idle
    /\ multi.calls < MaxCalls
    /\ \E outcomes \in [1..Len(multi.adapters) -> ChildOutcomes] :
          LET r == close(multi, outcomes)
          IN  /\ multi' = [adapters |-> r.adapters, calls |-> multi.calls + 1]
              /\ call' = [op |-> "close", outcomes |-> outcomes,
                          before |-> multi.adapters, order |-> r.order,
                          printed |-> r.printed, res |-> r.res]
    /\ UNCHANGED <<bufVars, streamVars, engine, app, reader>>

\* the call on the MultiOutputAdapter returns to its caller
MultiReturn ==
    /\ InMulti
    /\ call' = Absent
    /\ UNCHANGED <<bufVars, streamVars, engine, app, ioVars>>

\* no MultiOutputAdapter and no input adapter was made
NoIO ==
    /\ multi = Absent
    /\ reader = Absent

-----------------------------------------------------------------------------
(* Specifications *)

InitBuf == BufInit /\ NoStream /\ NoEngine /\ NoIO
NextBuf == append \/ pop
SpecBuf == InitBuf /\ [][NextBuf]_vars

InitStream == BufInit /\ StreamInit /\ NoEngine /\ NoIO
NextStream == ReadChunk \/ pop
SpecStream == InitStream /\ [][NextStream]_vars

InitFrame == BufInit /\ NoStream /\ NoEngine /\ NoIO
NextFrame == AppendFrame \/ pop
SpecFrame == InitFrame /\ [][NextFrame]_vars

InitMulti == BufInit /\ NoStream /\ NoEngine /\ NoIO
NextMulti == CallMultilateration \/ CallReturn
SpecMulti == InitMulti /\ [][NextMulti]_vars

InitSolve == BufInit /\ NoStream /\ NoEngine /\ NoIO
NextSolve == CallSolvePosition \/ CallReturn
SpecSolve == InitSolve /\ [][NextSolve]_vars

InitEngine == BufInit /\ NoStream /\ NoEngine /\ NoIO
NextEngine ==
    \/ Construct
    \/ CallCalibrate
    \/ CallValidateRange
    \/ CallCalculatePosition
    \/ CallReturn
SpecEngine == InitEngine /\ [][NextEngine]_vars

InitApp == BufInit /\ NoStream /\ AppInit /\ NoIO
NextApp ==
    \/ StartEngine
    \/ StartInput
    \/ StartOutput
    \/ OnDistanceUpdate
    \/ CallbackReturn
    \/ SignalHandler
    \/ Finally
    \/ ReaderExit
SpecApp == InitApp /\ [][NextApp]_vars

InitSerial ==
    /\ BufInit /\ NoEngine /\ multi = Absent
    /\ ReaderInit({"serial"}, WireSeqs)
NextSerial ==
    StartAdapter \/ LoopTest \/ SerialCycle \/ ReaderCallback \/ StopAdapter
SpecSerial == InitSerial /\ [][NextSerial]_vars

InitReader ==
    /\ BufInit /\ NoEngine /\ multi = Absent
    /\ ReaderInit(AdapterKinds, RecordSeqs)
NextReader ==
    \/ StartAdapter
    \/ LoopTest
    \/ SerialCycle
    \/ UdpCycle
    \/ FileCycle
    \/ ReaderCallback
    \/ StopAdapter
SpecReader == InitReader /\ [][NextReader]_vars

\* each reader thread is a thread of its own: the scheduler lets it run
FairReader ==
    /\ SpecReader
    /\ WF_vars(LoopTest)
    /\ WF_vars(SerialCycle \/ UdpCycle \/ FileCycle)
    /\ WF_vars(ReaderCallback)

InitOutput ==
    /\ BufInit /\ NoStream
    /\ engine = Absent /\ app = Absent /\ reader = Absent
    /\ MultiInit
NextOutput == CallSendPosition \/ CallClose \/ MultiReturn
SpecOutput == InitOutput /\ [][NextOutput]_vars

-----------------------------------------------------------------------------
(* Claims                                                                   *)

InCall(op) == call # Absent /\ call.op = op

Card(S) == Cardinality(S)

\* the ids of a distance dict whose value is not None
Present(d) == {i \in DOMAIN d : d[i] # NoneDist}

\* C1: after N + k single-span appends (k >= 1) with no pop in between,
\* size is N and the pops return the last N appended spans in the order in
\* which they were appended.
C1_Claim ==
    (oneEach /\ ~appendAfterPop /\ Len(stored) > Capacity) =>
        /\ size = Capacity - Len(popped)
        /\ popped = SubSeq(stored, Len(stored) - Capacity + 1,
                           Len(stored) - Capacity + Len(popped))

\* C2: once a delimiter-framed stream of 5-byte records has been read, in
\* chunks cut anywhere, and drained without overflow, the spans popped are
\* exactly the records of the stream, in order.
C2_Claim ==
    (pending = <<>> /\ ~overflowed /\ size = 0) => popped = records

\* C3: whenever the anchor-position table has fewer than 3 entries,
\* multilateration reports the insufficient-anchors error, also when fewer
\* than 3 samples are supplied.
C3_Claim ==
    (InCall("multilateration") /\ Card(DOMAIN call.anchor_positions) < 3) =>
        call.res = Raise("ValueError", "Not enough anchor positions")

\* C4: with at least 3 table entries and fewer than 3 non-None samples,
\* multilateration fails with the insufficient-data error; None entries do
\* not count as samples.
C4_Theorem ==
    (/\ InCall("multilateration")
     /\ Card(DOMAIN call.anchor_positions) >= 3
     /\ Card(Present(call.raw_data)) < 3) =>
        /\ call.res = Raise("ValueError", "Not enough data")
        /\ call.P = NotInvoked

C4_Witness ==
    /\ InCall("multilateration")
    /\ Card(DOMAIN call.anchor_positions) >= 3
    /\ Card(DOMAIN call.raw_data) >= 3
    /\ Card(Present(call.raw_data)) < 3
    /\ call.res = Raise("ValueError", "Not enough data")

\* C5: with at least 3 table entries and at least 3 non-None samples but
\* fewer than 3 ids common to both, multilateration fails with the
\* no-common-anchors error and the solver is not invoked.
C5_Theorem ==
    (/\ InCall("multilateration")
     /\ Card(DOMAIN call.anchor_positions) >= 3
     /\ Card(Present(call.raw_data)) >= 3
     /\ Card(Present(call.raw_data) \cap DOMAIN call.anchor_positions) < 3) =>
        /\ call.res = Raise("ValueError", "Not enough common anchors")
        /\ call.P = NotInvoked

C5_Witness ==
    /\ InCall("multilateration")
    /\ Card(DOMAIN call.anchor_positions) >= 3
    /\ Card(Present(call.raw_data)) >= 3
    /\ Present(call.raw_data) \cap DOMAIN call.anchor_positions = {}
    /\ call.res = Raise("ValueError", "Not enough common anchors")

\* the ids of a distance dict whose value is present and inside the engine's
\* inclusive range
InRange(e, d) ==
    {i \in Present(d) : e.min_range <= d[i] /\ d[i] <= e.max_range}

\* C6: calculate_position returns None without calling the solver whenever
\* fewer than 3 entries of the input map are non-None and in range, however
\* many entries the map has.
C6_Theorem ==
    (InCall("calculate_position") /\ Card(InRange(engine, call.distances)) < 3) =>
        /\ call.res = Return(NonePos)
        /\ call.solve = NoSolve

C6_Witness ==
    /\ InCall("calculate_position")
    /\ engine.max_range = 100
    /\ Card(DOMAIN call.distances) >= 3
    /\ Card(InRange(engine, call.distances)) = 2
    /\ \E i \in DOMAIN call.distances : call.distances[i] = 150
    /\ \E i \in DOMAIN call.distances : call.distances[i] = NoneDist
    /\ call.res = Return(NonePos)

\* C7: calculate_position never propagates a failure: it returns a 3-tuple
\* or None, and every failure raised inside the solver is reported and
\* turned into None.
C7_Claim ==
    InCall("calculate_position") =>
        /\ call.res.kind = "return"
        /\ call.res.value = NonePos \/ Len(call.res.value) = 3
        /\ (call.solve # NoSolve /\ call.solve.res.kind = "raise") =>
               (call.res = Return(NonePos) /\ call.printed)

\* the calibration polynomial of an engine whose parameter count is right
Poly(e, x) ==
    LET p == e.calibration_params
    IN  IF e.calibration_type = "linear" THEN p[1] * x + p[2]
        ELSE IF e.calibration_type = "quadratic" THEN p[1] * x * x + p[2] * x + p[3]
        ELSE IF e.calibration_type = "cubic"
             THEN p[1] * x * x * x + p[2] * x * x + p[3] * x + p[4]
        ELSE x

Arity(t) == IF t = "linear" THEN 2 ELSE IF t = "quadratic" THEN 3 ELSE 4

\* the parameter count does not match the calibration variant
Mismatch(e) ==
    /\ e.calibration_type \in {"linear", "quadratic", "cubic"}
    /\ Len(e.calibration_params) # Arity(e.calibration_type)

\* the raw entries whose calibrated value is inside the range, calibrated
KeptCalibrated(e, d) ==
    [i \in {j \in Present(d) :
                e.min_range <= Poly(e, d[j]) /\ Poly(e, d[j]) <= e.max_range}
       |-> Poly(e, d[i])]

\* C8 as claimed: calculate_position calibrates every present distance of
\* the map it is called with (here the map the callback passes to it), keeps
\* it iff the calibrated value is in range, and passes the calibrated value
\* on to the solver.
C8_Claim ==
    (/\ InCall("_on_distance_update")
     /\ app.engine # Absent
     /\ ~Mismatch(app.engine)) =>
        call.valid = KeptCalibrated(app.engine, call.calibrated)

\* C8 as amended: the calibration is applied by _on_distance_update, which
\* keeps a raw value iff its calibrated value is in range and hands the
\* calibrated values to calculate_position; calculate_position passes them
\* on unchanged, so the solver receives calibrate(raw); with a mismatched
\* parameter count the callback raises before any position is computed.
C8_Amended ==
    (InCall("_on_distance_update") /\ app.engine # Absent) =>
        IF Mismatch(app.engine) /\ DOMAIN call.distances # {}
        THEN call.res.kind = "raise" /\ call.solve = NoSolve
        ELSE /\ call.calibrated = KeptCalibrated(app.engine, call.distances)
             /\ call.valid = call.calibrated
             /\ \A i \in DOMAIN call.solve.P.measures :
                    call.solve.P.measures[i] = Poly(app.engine, call.distances[i])

C8_Witness ==
    /\ InCall("_on_distance_update")
    /\ app.engine # Absent
    /\ app.engine.calibration_type = "linear"
    /\ ~Mismatch(app.engine)
    /\ call.solve.P.solved
    /\ \E i \in DOMAIN call.distances : i \notin DOMAIN call.calibrated
    /\ \E i \in DOMAIN call.solve.P.measures :
           call.solve.P.measures[i] # call.distances[i]

C10_Theorem ==
    /\ (InCall("__init__") /\ Card(DOMAIN call.anchor_positions) < 3) =>
           (call.res = Raise("ValueError", "At least 3 anchor positions")
            /\ engine = Absent)
    /\ engine # Absent => Card(DOMAIN engine.anchor_positions) >= 3

C10_Witness ==
    /\ InCall("__init__")
    /\ Card(DOMAIN call.anchor_positions) = 2
    /\ call.res.kind = "raise"
    /\ engine = Absent

\* the slots that hold a span stored by append and not yet returned by pop
Live ==
    {s \in DOMAIN buffer :
        /\ slotIdx[s] # 0
        /\ \A i \in 1..Len(poppedIdx) : poppedIdx[i] # slotIdx[s]}

\* number of successful pops since the last append that stored a span
PopsSince == Len(popped) - last.at

\* C13: appending to an empty buffer one chunk of k storable spans
\* (1 <= k <= capacity) joined by the delimiter makes size equal k, and the
\* next k pops return those spans in their original order.
C13_Claim ==
    (/\ last.empty /\ last.clean
     /\ last.n >= 1 /\ last.n <= BufLen(Buf)
     /\ PopsSince <= last.n) =>
        /\ size = last.n - PopsSince
        /\ SubSeq(popped, last.at + 1, Len(popped))
             = SubSeq(stored, Len(stored) - last.n + 1,
                      Len(stored) - last.n + PopsSince)

\* C15: after any sequence of append and pop calls, size equals the number
\* of spans that were stored by append, have not been overwritten, and have
\* not yet been returned by pop.
C15_Claim == size = Cardinality(Live)

\* C16: after every completed append or pop call on a buffer of capacity N,
\* 0 <= size <= N, 0 <= head < N and 0 <= tail < N, also after one append
\* whose chunk holds more than N storable spans.
C16_Theorem ==
    /\ 0 <= size /\ size <= BufLen(Buf)
    /\ 0 <= head /\ head < BufLen(Buf)
    /\ 0 <= tail /\ tail < BufLen(Buf)

C16_Witness ==
    /\ last.n > BufLen(Buf)
    /\ PopsSince = 0
    /\ size = BufLen(Buf)
    /\ head = 1

\* C20: validate_range(v) is true exactly when min_range <= v <= max_range,
\* both bounds included: with bounds [0, 100] it is true for 0 and 100 and
\* false below 0 and above 100.
C20_Theorem ==
    InCall("validate_range") =>
        /\ call.res.kind = "return"
        /\ call.res.value =
               (~(call.distance < engine.min_range) /\ ~(call.distance > engine.max_range))
        /\ (engine.min_range = 0 /\ engine.max_range = 100) =>
               /\ call.distance \in {0, 100} => call.res.value
               /\ (call.distance < 0 \/ call.distance > 100) => ~call.res.value

C20_Witness ==
    /\ InCall("validate_range")
    /\ engine.min_range = 0 /\ engine.max_range = 100
    /\ call.distance = 100
    /\ call.res = Return(TRUE)

\* the call every child is to receive during the call in progress
ChildCall ==
    IF call.op = "send_position"
    THEN [op |-> "send_position", position |-> call.position,
          timestamp |-> call.timestamp]
    ELSE [op |-> "close"]

\* C17: MultiOutputAdapter.send_position calls send_position with the same
\* (position, timestamp) exactly once on every child, in list order; an
\* exception raised by one child neither stops the delivery to the children
\* after it nor reaches the caller; close likewise closes every child even
\* when one close raises.
C17_Theorem ==
    InMulti =>
        /\ call.res = Return("None")
        /\ Len(call.order) = Len(multi.adapters)
        /\ \A i \in 1..Len(multi.adapters) :
              /\ call.order[i] = [child |-> i, rec |-> ChildCall]
              /\ multi.adapters[i] = Append(call.before[i], ChildCall)

C17_Witness ==
    /\ InMulti
    /\ call.op = "send_position"
    /\ Len(multi.adapters) >= 3
    /\ call.outcomes[1] = "ok" /\ call.outcomes[2] = "Exception"
    /\ call.printed = <<2>>
    /\ multi.adapters[3] # <<>>

\* the reader thread has completed a pass of its loop body
PassDone == reader.cycle # Absent /\ reader.pc # "callback"

\* the reader thread has completed a pass of its loop body that read a chunk
ReadDone == PassDone /\ reader.cycle.read

\* positions in the drain of the last pass of the spans that are frames
Frames(c) == {i \in 1..Len(c.popped) : Len(c.popped[i]) = 5}

\* for each anchor id, distance_mm / 1000 of the last frame with that id
\* among the spans popped in the drain of the pass c
LastFrames(c) ==
    LET ids == {c.popped[i][1] : i \in Frames(c)}
        lastOf(id) == CHOOSE i \in Frames(c) :
                         /\ c.popped[i][1] = id
                         /\ \A j \in Frames(c) : c.popped[j][1] = id => j <= i
        mm(span) == [hi |-> span[5], lo |-> span[2] + 256 * span[3] + 65536 * span[4]]
    IN  [id \in ids |-> [num |-> mm(c.popped[lastOf(id)]), den |-> 1000]]

\* C11: in the serial consumer loop a popped span whose length is not 5
\* bytes makes only that frame be dropped: every span behind it in the
\* buffer is still popped in the same drain, and the well-formed ones are in
\* the measurement cycle delivered for that drain.
C11_Claim ==
    (ReadDone /\ \E i \in 1..Len(reader.cycle.popped) : Len(reader.cycle.popped[i]) # 5) =>
        /\ reader.buffer.size = 0
        /\ \A i \in Frames(reader.cycle) :
              /\ reader.cycle.callbacks # <<>>
              /\ reader.cycle.popped[i][1] \in DOMAIN reader.cycle.callbacks[1]

\* C12: the framer of the serial reader never stores a span longer than the
\* frame size of 5 bytes: every span pop can return has 1 to 5 bytes.
C12_Claim ==
    \A slot \in DOMAIN reader.buffer.buffer :
        Len(reader.buffer.buffer[slot]) \in 1..5

\* C14: for each read of the serial transport that yields at least one
\* decodable frame the loop calls the callback exactly once, after the
\* buffer has been drained to empty, with the map that holds for each anchor
\* id the distance_mm / 1000 of the last frame with that id in that drain.
C14_Claim ==
    (ReadDone /\ Frames(reader.cycle) # {}) =>
        /\ Len(reader.cycle.callbacks) = 1
        /\ reader.buffer.size = 0
        /\ reader.cycle.callbacks[1] = LastFrames(reader.cycle)

\* C18: after stop() on a started Serial, UDP or File adapter is_running()
\* is false and the reader loop eventually exits; once it has seen running
\* false at its loop test it reads nothing more and calls no callback.
C18_Theorem ==
    /\ [](reader.stopped => ~reader.running)
    /\ (reader.stopped /\ reader.pc \in {"test", "body", "callback"})
          ~> (reader.pc = "exited")
    /\ [][reader.pc = "exited" =>
             /\ reader'.pc = "exited"
             /\ reader'.delivered = reader.delivered
             /\ reader'.cycle = reader.cycle
             /\ reads' = reads]_vars

C18_Witness ==
    /\ reader.stopped
    /\ reader.pc = "exited"
    /\ reader.delivered >= 1

\* C19: a failure in one pass never ends a reader loop: when decoding,
\* parsing or the callback raised in a pass of the Serial, UDP or File
\* reader, the loop is still running as long as running stays true, and it
\* ends only by seeing running false.
C19_Theorem ==
    /\ (reader.failed /\ reader.running) => reader.pc \in {"test", "body", "callback"}
    /\ reader.pc = "exited" => ~reader.running

C19_Witness ==
    /\ reader.failed
    /\ reader.running
    /\ reader.cycle.raised = "none"
    /\ reader.cycle.callbacks # <<>>

\* C21: calibrate is a pure function of (model, raw): with model none and
\* with linear [1, 0] it returns raw, with linear [k, b] it returns
\* k*raw + b, with quadratic [a, b, c] it returns a*raw^2 + b*raw + c; the
\* value depends on nothing else and the call changes nothing.
C21_Theorem ==
    /\ [](InCall("calibrate") =>
            LET t == engine.calibration_type
                p == engine.calibration_params
                raw == call.raw_distance
            IN  /\ t = "none" => call.res = Return(raw)
                /\ (t = "linear" /\ p = <<1, 0>>) => call.res = Return(raw)
                /\ (t = "linear" /\ Len(p) = 2) =>
                       call.res = Return(p[1] * raw + p[2])
                /\ (t = "quadratic" /\ Len(p) = 3) =>
                       call.res = Return(p[1] * raw * raw + p[2] * raw + p[3]))
    /\ [][(call' # Absent /\ call'.op = "calibrate") => engine' = engine]_vars

C21_Witness ==
    /\ InCall("calibrate")
    /\ engine.calibration_type = "linear"
    /\ engine.calibration_params = <<2, 1>>
    /\ call.raw_distance = 60
    /\ call.res = Return(121)

\* C22: after a successful solve multilateration applies the z-sign policy:
\* with z_sign = +1 the returned z is |z_solved|, with z_sign = -1 it is
\* -|z_solved|, with z_sign = 0 it is the solved z; x and y are the solved
\* x and y.
C22_Theorem ==
    (InCall("multilateration") /\ call.res.kind = "return") =>
        LET solved == call.outcome.loc
            out == call.res.value
        IN  /\ out[1] = solved[1] /\ out[2] = solved[2]
            /\ call.z_sign = 1 =>
                   out[3] = (IF solved[3] < 0 THEN -solved[3] ELSE solved[3])
            /\ call.z_sign = -1 =>
                   out[3] = (IF solved[3] < 0 THEN solved[3] ELSE -solved[3])
            /\ call.z_sign = 0 => out[3] = solved[3]

C22_Witness ==
    /\ InCall("multilateration")
    /\ call.z_sign = -1
    /\ call.outcome.kind = "loc" /\ call.outcome.loc = <<1, 2, 1>>
    /\ call.res = Return(<<1, 2, -1>>)

\* C26: decoding a 5-byte span b0 b1 b2 b3 b4 yields id = b0 and
\* distance_mm = b1 + 256*b2 + 65536*b3 + 16777216*b4 (here 16777216 * hi +
\* lo), so 01 88 13 00 00 is id 1, distance 5000; decoding a span of another
\* length fails and leaves the buffer as the pop left it.
C26_Theorem ==
    (reader.cycle # Absent /\ reader.cycle.read) =>
        LET c == reader.cycle
        IN  \A i \in 1..Len(c.popped) :
               LET span == c.popped[i]
               IN  IF Len(span) = 5
                   THEN /\ c.decoded[i].kind = "return"
                        /\ c.decoded[i].value.id = span[1]
                        /\ c.decoded[i].value.data.hi = span[5]
                        /\ c.decoded[i].value.data.lo
                              = span[2] + 256 * span[3] + 65536 * span[4]
                        /\ span = <<1, 136, 19, 0, 0>> =>
                              c.decoded[i].value = [id |-> 1, data |-> [hi |-> 0, lo |-> 5000]]
                   ELSE /\ c.decoded[i].kind = "raise"
                        /\ c.raised = "struct.error"
                        /\ i = Len(c.popped)
                        /\ reader.buffer.buffer = c.appended.buffer
                        /\ reader.buffer.head = c.appended.head
                        /\ reader.buffer.tail = (c.appended.tail + i) % SerialSlots
                        /\ reader.buffer.size = c.appended.size - i

C26_Witness ==
    /\ ReadDone
    /\ Len(reader.cycle.popped) = 2
    /\ reader.cycle.popped[1] = <<1, 136, 19, 0, 0>>
    /\ reader.cycle.decoded[1].kind = "return"
    /\ Len(reader.cycle.popped[2]) = 3
    /\ reader.cycle.raised = "struct.error"

\* C27: within one reader the measurement cycles reach the callback in the
\* order in which they were drained: the callback of a drain is made within
\* the pass of that drain, nothing is read or popped while it runs, and the
\* cycles are delivered in the order of their reads.
C27_Theorem ==
    /\ []((PassDone /\ reader.cycle.due) => Len(reader.cycle.callbacks) = 1)
    /\ [](\A i, j \in 1..Len(reader.order) : i < j => reader.order[i] < reader.order[j])
    /\ [][reader.pc = "callback" =>
             /\ reader'.buffer = reader.buffer
             /\ pending' = pending
             /\ reads' = reads]_vars

C27_Witness ==
    /\ PassDone
    /\ Len(reader.order) >= 2
    /\ Len(reader.cycle.callbacks) = 1

\* C28: pop on a buffer with size 0 returns nothing and leaves head, tail,
\* size and every slot unchanged; pop on a buffer with size > 0 returns the
\* span at tail, advances tail to (tail + 1) mod N, decrements size by 1 and
\* leaves head and every slot unchanged.
C28_Theorem ==
    [][pop =>
         IF size = 0
         THEN ret' = NoneBytes /\ UNCHANGED <<buffer, head, tail, size>>
         ELSE /\ ret' = buffer[tail]
              /\ tail' = (tail + 1) % Capacity
              /\ size' = size - 1
              /\ UNCHANGED <<buffer, head>>]_vars

C28_Witness ==
    /\ ret = <<50>>
    /\ buffer[1] = <<50>>
    /\ tail = 2
    /\ size = 0

\* the spans of a chunk that append is to store: the non-empty runs between
\* delimiters that are at most element_size bytes long, in chunk order
Kept(item) ==
    IF item = NoneBytes THEN <<>>
    ELSE SelectSeq(Split(item), LAMBDA span : Len(span) >= 1 /\ Len(span) <= element_size)

\* C29: append of None, of an empty chunk, of a chunk made only of
\* delimiters or of a chunk whose spans are all longer than element_size
\* leaves head, tail, size and every slot unchanged; in general append
\* stores exactly the non-empty spans of length <= element_size, in chunk
\* order, and advances head by their count modulo N.
C29_Theorem ==
    [][\A item \in Chunks : AppendStep(item) =>
         LET kept == Kept(item)
             n == Len(kept)
         IN  /\ n = 0 => UNCHANGED <<buffer, head, tail, size>>
             /\ item \in {NoneBytes, <<>>, Delimiter, <<1, 2, 3, 4, 5, 6>>} => n = 0
             /\ head' = (head + n) % Capacity
             /\ \A i \in 1..n :
                   (\A j \in (i + 1)..n : (j - i) % Capacity # 0) =>
                       buffer'[(head + i - 1) % Capacity] = kept[i]
             /\ \A slot \in 0..(Capacity - 1) :
                   (\A i \in 1..n : (head + i - 1) % Capacity # slot) =>
                       buffer'[slot] = buffer[slot]]_vars

C29_Witness ==
    /\ last.n = 2 /\ last.clean /\ PopsSince = 0
    /\ head = 0
    /\ buffer[1] = <<49>> /\ buffer[2] = <<50>>

\* a call of solve_position that returned a position
Solved == InCall("solve_position") /\ call.res.kind = "return"

\* C23: solve_position returns z >= 0 when the policy is upper (+1) and
\* z <= 0 when the policy is lower (-1), with the same x and y in both cases.
C23_Theorem ==
    Solved =>
        LET other == solve_position(call.d1, call.d2, call.d3, -call.z_sign,
                                    Default(call.L2), Default(call.L3))
        IN  /\ call.z_sign = 1 => ~Negative(call.res.value[3])
            /\ call.z_sign = -1 => NotPositive(call.res.value[3])
            /\ call.z_sign # 0 =>
                  /\ other.kind = "return"
                  /\ other.value[1] = call.res.value[1]
                  /\ other.value[2] = call.res.value[2]
                  /\ other.value[3].man = call.res.value[3].man
                  /\ other.value[3].exp = call.res.value[3].exp

C23_Witness ==
    /\ Solved
    /\ call.z_sign = -1
    /\ call.P = <<1, 1, -1>>
    /\ Negative(call.res.value[3])

\* |a - n| <= 1e-2 for a float a and an integer n, computed exactly
Within(a, n) ==
    LET b == Float64(n, 0)
        e == IF a.exp < b.exp THEN a.exp ELSE b.exp
        x == ShiftLeft(a.man, a.exp - e)
        y == ShiftLeft(b.man, b.exp - e)
        D == IF a.neg # b.neg THEN Add(x, y)
             ELSE IF Cmp(x, y) >= 0 THEN Sub(x, y) ELSE Sub(y, x)
    IN  IF e >= 0 THEN D = <<>> ELSE Cmp(Times(D, 100), ShiftLeft(One, -e)) <= 0

\* the call returned the point its distances were derived from
Recovered ==
    /\ Solved
    /\ \A i \in 1..3 : Within(call.res.value[i], call.P[i])

\* the distances of the call are those of a known point, the anchor lengths
\* are positive and the sign policy matches the sign of pz
Synthetic ==
    /\ InCall("solve_position")
    /\ call.P # NonePos
    /\ ~NotPositive(Default(call.L2)) /\ ~NotPositive(Default(call.L3))
    /\ \/ call.z_sign = 1 /\ call.P[3] >= 0
       \/ call.z_sign = -1 /\ call.P[3] <= 0

\* C24 as stated: for every point P, L2 > 0 and L3 > 0, solve_position
\* returns P within 1e-2 when the sign policy matches the sign of pz.
C24_Claim == Synthetic => Recovered

\* C24: for anchors with L2 > 0 and L3 > 0, a point P whose coordinates are
\* within 100 m of A1 and the distances derived from P, solve_position
\* returns P within 1e-2 when the sign policy matches the sign of pz.
C24_Theorem ==
    (Synthetic /\ \A i \in 1..3 : call.P[i] \in -100..100) => Recovered

C24_Witness ==
    /\ Synthetic /\ Recovered
    /\ call.P = <<1, 1, 1>>
    /\ call.L2 = Float64(3, 0) /\ call.L3 = Float64(3, 0)
    /\ call.z_sign = 1

\* C25: solve_position fails with an error and returns no position whenever
\* L2 <= 0 or L3 <= 0, whatever the distances; a call that does not supply
\* L2 and L3 fails.
C25_Theorem ==
    InCall("solve_position") =>
        /\ (NotPositive(Default(call.L2)) \/ NotPositive(Default(call.L3))) =>
               call.res = Raise("ValueError", "L2 and L3 must be positive")
        /\ (call.L2 = Absent \/ call.L3 = Absent) => call.res.kind = "raise"

C25_Witness ==
    /\ InCall("solve_position")
    /\ call.L2 = Float64(0, 0)
    /\ call.L3 = Float64(3, 0)
    /\ call.P = <<1, 1, 1>>
    /\ call.res.kind = "raise"

\* d1^2 - x^2 - y^2 of the call, for the x and y it returned
Z2 ==
    fsub(fsub(fmul(call.d1, call.d1), fmul(call.res.value[1], call.res.value[1])),
         fmul(call.res.value[2], call.res.value[2]))

\* (L^2 + d1^2 - d^2) / (2 L)
ClosedForm(L, d1, d) ==
    fdiv(fsub(fadd(fmul(L, L), fmul(d1, d1)), fmul(d, d)), fmul(Float64(2, 0), L))

\* C30: when the distances are inconsistent so that d1^2 - x^2 - y^2 < 0,
\* solve_position raises no error and returns z = 0 with x and y computed by
\* the closed-form formulas.
C30_Theorem ==
    /\ (InCall("solve_position") /\ ~Degenerate(Default(call.L2), Default(call.L3))) => Solved
    /\ (Solved /\ Negative(Z2)) =>
          /\ IsZero(call.res.value[3])
          /\ call.res.value[1] = ClosedForm(call.L2, call.d1, call.d2)
          /\ call.res.value[2] = ClosedForm(call.L3, call.d1, call.d3)

C30_Witness ==
    /\ Solved /\ Negative(Z2)
    /\ call.d1 = Float64(1, 0) /\ call.d2 = Float64(5, 0) /\ call.d3 = Float64(5, 0)
    /\ call.L2 = Float64(3, 0) /\ call.L3 = Float64(3, 0)
    /\ call.res.value[1] = Float64(-5, -1)
    /\ IsZero(call.res.value[3])

\* C31: the solver only receives anchors that have both a surviving sample
\* and a known position: samples for ids absent from the anchor table are
\* ignored, table entries without a sample are not added, and when at least
\* 3 samples survive but fewer than 3 match known anchors,
\* calculate_position returns None.
C31_Theorem ==
    InCall("calculate_position") =>
        LET P == call.solve.P
            surviving == InRange(engine, call.distances)
            known == DOMAIN engine.anchor_positions
        IN  /\ DOMAIN call.valid = surviving
            /\ DOMAIN P.anchors = DOMAIN P.measures
            /\ P.solved => /\ DOMAIN P.anchors = surviving \cap known
                            /\ Card(DOMAIN P.anchors) >= 3
            /\ ~P.solved => DOMAIN P.anchors = {}
            /\ \A i \in DOMAIN P.anchors :
                  /\ P.anchors[i] = engine.anchor_positions[i]
                  /\ P.measures[i] = call.distances[i]
            /\ (Card(surviving) >= 3 /\ Card(surviving \cap known) < 3) =>
                  /\ call.res = Return(NonePos)
                  /\ ~P.solved

\* four samples survive and one of them has no known position, so three
\* anchors reach the solver
C31_Witness ==
    /\ InCall("calculate_position")
    /\ DOMAIN engine.anchor_positions = {1, 2, 3}
    /\ InRange(engine, call.distances) = {1, 2, 3, 4}
    /\ call.solve.P.solved
    /\ DOMAIN call.solve.P.anchors = {1, 2, 3}

\* the calls of the three methods of the engine
EngineCalls == {"calibrate", "validate_range", "calculate_position"}

C33_Claim ==
    (reader.cycle # Absent /\ reader.cycle.callbacks # <<>>) =>
        \A id \in DOMAIN reader.cycle.callbacks[1] :
            /\ id \in DOMAIN LastFrames(reader.cycle)
            /\ reader.cycle.callbacks[1][id] = LastFrames(reader.cycle)[id]

\* C34: over any sequence of append and pop calls every span stored by
\* append is returned by pop at most once: a span that pop has returned is
\* never returned again by a later pop.
C34_Claim ==
    \A i, j \in 1..Len(poppedIdx) :
        (i # j /\ poppedIdx[i] # 0) => poppedIdx[i] # poppedIdx[j]

\* C35: data is lost only on overflow: an append that stores m spans into a
\* buffer with size + m <= N overwrites no slot that holds an unread span,
\* in any state reachable by append and pop, states after an earlier
\* overflow and pops included.
C35_Claim ==
    [][(/\ Len(stored') > Len(stored)
        /\ size + (Len(stored') - Len(stored)) <= BufLen(Buf)) =>
            \A s \in Live : slotIdx'[s] = slotIdx[s]]_vars

\* C36: framing round-trips every record: once records encoded as 5
\* little-endian bytes and placed between delimiters have been appended and,
\* with no overflow, popped, each pop has returned one span that decodes to
\* the same (id, distance_mm), also for a record whose own bytes contain
\* FF FF FF 00.
C36_Claim ==
    (~overflowed /\ size = 0) =>
        /\ Len(popped) = Len(records)
        /\ \A i \in 1..Len(popped) : Unpack(popped[i]) = Return(records[i])

\* C37: every position computed by _on_distance_update is forwarded to the
\* output adapter, also when the reader thread delivers the cycle during
\* start(), after the input adapter was started and before the output
\* adapter exists.
C37_Claim ==
    \A i \in 1..Len(app.position_history) :
        \E j \in 1..Len(app.sent) :
            app.sent[j] = <<app.position_history[i][2], app.position_history[i][1]>>

\* C38: after stop() has closed the output adapter no reader thread calls
\* send_position on it, neither from a callback in progress when stop() set
\* running to false nor from a thread still alive when the bounded join
\* returned.
C38_Claim == ~app.late

\* C39: in one run of UWBLocalizerApp the input adapter is stopped and the
\* output adapter is closed exactly once on every shutdown path, the path of
\* a SIGINT or SIGTERM handled by _signal_handler inside the try statement
\* of run() included.
C39_Claim ==
    (app.pc = "exited" /\ app.output_adapter) =>
        /\ app.stops = 1
        /\ app.closes = 1

====
